---- MODULE Spec2Model ----
(***************************************************************************)
(* The Diab front end of sccache (src/compiler/diab.rs): the expansion of  *)
(* `-@file` arguments, the classification of an invocation by             *)
(* parse_arguments, and the command lines built from its result.          *)
(*                                                                         *)
(* A string is a sequence of one-character strings, so that prefixes,     *)
(* concatenation, splitting at whitespace and file extensions are          *)
(* computed and not assumed.                                               *)
(***************************************************************************)
EXTENDS Integers, Sequences, FiniteSets, TLC

\* ------------------------------------------------------------------------
\* Strings
\* ------------------------------------------------------------------------

StartsWith(s, p) == Len(p) <= Len(s) /\ SubSeq(s, 1, Len(p)) = p

\* s with its first n characters removed
Drop(s, n) == SubSeq(s, n + 1, Len(s))

Reverse(s) == [i \in 1..Len(s) |-> s[Len(s) + 1 - i]]

Contains(s, c) == \E i \in 1..Len(s) : s[i] = c

IsWhitespace(c) == c \in {" ", "\t", "\n", "\r"}

RECURSIVE SplitFrom(_, _, _, _)
SplitFrom(s, i, cur, out) ==
  IF i > Len(s)
    THEN (IF cur = <<>> THEN out ELSE Append(out, cur))
    ELSE IF IsWhitespace(s[i])
      THEN SplitFrom(s, i + 1, <<>>, IF cur = <<>> THEN out ELSE Append(out, cur))
      ELSE SplitFrom(s, i + 1, Append(cur, s[i]), out)

\* str::split_whitespace: the maximal runs of non-whitespace characters
SplitWhitespace(s) == SplitFrom(s, 1, <<>>, <<>>)

\* ------------------------------------------------------------------------
\* The literals of the source
\* ------------------------------------------------------------------------

s_dash == <<"-">>
s_hh == <<"-", "#", "#">>
s_hhh == <<"-", "#", "#", "#">>
s_at == <<"-", "@">>
s_D == <<"-", "D">>
s_E == <<"-", "E">>
s_I == <<"-", "I">>
s_L == <<"-", "L">>
s_P == <<"-", "P">>
s_S == <<"-", "S">>
s_U == <<"-", "U">>
s_V == <<"-", "V">>
s_VV == <<"-", "V", "V">>
s_W == <<"-", "W">>
s_Xmd == <<"-", "X", "m", "a", "k", "e", "-", "d", "e", "p", "e", "n", "d", "e", "n", "c", "y">>
s_Xmd_canon == <<"-", "X", "m", "a", "k", "e", "-", "d", "e", "p", "e", "n", "d", "e", "n", "c", "y", "-", "c", "a", "n", "o", "n", "i", "c", "a", "l", "i", "z", "e", "-", "p", "a", "t", "h", "-", "o", "f", "f">>
s_Xmd_savefile == <<"-", "X", "m", "a", "k", "e", "-", "d", "e", "p", "e", "n", "d", "e", "n", "c", "y", "-", "s", "a", "v", "e", "f", "i", "l", "e">>
s_Xmd_target == <<"-", "X", "m", "a", "k", "e", "-", "d", "e", "p", "e", "n", "d", "e", "n", "c", "y", "-", "t", "a", "r", "g", "e", "t">>
s_c == <<"-", "c">>
s_include == <<"-", "i", "n", "c", "l", "u", "d", "e">>
s_l == <<"-", "l">>
s_o == <<"-", "o">>
s_t == <<"-", "t">>
s_argument_parse == <<"a", "r", "g", "u", "m", "e", "n", "t", " ", "p", "a", "r", "s", "e">>
s_multiple_input_files == <<"m", "u", "l", "t", "i", "p", "l", "e", " ", "i", "n", "p", "u", "t", " ", "f", "i", "l", "e", "s">>
s_no_input_file == <<"n", "o", " ", "i", "n", "p", "u", "t", " ", "f", "i", "l", "e">>
s_unknown_source_language == <<"u", "n", "k", "n", "o", "w", "n", " ", "s", "o", "u", "r", "c", "e", " ", "l", "a", "n", "g", "u", "a", "g", "e">>
s_atsign == <<"@">>
s_Missing_obj == <<"M", "i", "s", "s", "i", "n", "g", " ", "o", "b", "j", "e", "c", "t", " ", "f", "i", "l", "e", " ", "o", "u", "t", "p", "u", "t">>

\* ------------------------------------------------------------------------
\* ARGS: the argument table of the Diab compiler
\* ------------------------------------------------------------------------

\* flag!(text, data)
flag(s, d) == [flag |-> s, kind |-> "Flag", disp |-> "None", delim |-> "", data |-> d]

\* take_arg!(text, type, disposition, data); delim "" is no delimiter
take_arg(s, disp, delim, d) ==
  [flag |-> s, kind |-> "TakeArg", disp |-> disp, delim |-> delim, data |-> d]

ARGS ==
  << flag(s_dash, "TooHardFlag"),
     flag(s_hh, "TooHardFlag"),
     flag(s_hhh, "TooHardFlag"),
     take_arg(s_at, "Concatenated", "", "TooHard"),
     take_arg(s_D, "CanBeSeparated", "", "PreprocessorArgument"),
     flag(s_E, "TooHardFlag"),
     take_arg(s_I, "CanBeSeparated", "", "PreprocessorArgumentPath"),
     take_arg(s_L, "Separated", "", "PassThrough"),
     flag(s_P, "TooHardFlag"),
     flag(s_S, "TooHardFlag"),
     take_arg(s_U, "CanBeSeparated", "", "PreprocessorArgument"),
     flag(s_V, "TooHardFlag"),
     flag(s_VV, "TooHardFlag"),
     take_arg(s_W, "Separated", "", "PassThrough"),
     flag(s_Xmd, "PreprocessorArgumentFlag"),
     flag(s_Xmd_canon, "PreprocessorArgumentFlag"),
     take_arg(s_Xmd_savefile, "Concatenated", "=", "PreprocessorArgumentPath"),
     take_arg(s_Xmd_target, "Concatenated", "=", "PreprocessorArgument"),
     flag(s_c, "DoCompilation"),
     take_arg(s_include, "CanBeSeparated", "", "PreprocessorArgumentPath"),
     take_arg(s_l, "Separated", "", "PassThrough"),
     take_arg(s_o, "Separated", "", "Output"),
     take_arg(s_t, "Separated", "", "PassThrough") >>

\* ------------------------------------------------------------------------
\* The working directory: the files an `-@name` argument may name
\* ------------------------------------------------------------------------

n_f == <<"f">>
n_g == <<"g">>
n_h == <<"h">>
n_e == <<"e">>
n_q == <<"q">>
n_p == <<"p">>
n_Of == <<"O", "f">>
n_m == <<"m">>
n_s == <<"s">>
n_a == <<"a">>
n_b == <<"b">>
c_f == <<"-", "c", " ", "f", "o", "o", ".", "c">>
c_g == <<"-", "@", "f", "\n", "-", "o", " ", " ", "f", "o", "o", ".", "o">>
c_h == <<" ", "-", "@", "e", " ", "-", "I", "\t", "i", "n", "c", "l", "u", "d", "e", " ", "-", "L", " ", "l", "i", "b", " ", "-", "o", " ", "f", "o", "o", ".", "o", " ", "-", "f", "a", "b", "c", "\n">>
c_e == <<" ", "\n">>
c_q == <<"-", "c", " ", "\"", "f", "o", "o", ".", "c", "\"">>
c_p == <<"-", "c", " ", "'", "f", "o", "o", ".", "c", "'">>
c_s == <<"-", "@", "s">>
c_a == <<"-", "c", " ", "-", "@", "b">>
c_b == <<"f", "o", "o", ".", "c", "\n", "-", "@", "a", "\n">>

\* The text files under the working directory, by name; any other name
\* cannot be opened.
Files ==
  (n_f :> c_f) @@ (n_g :> c_g) @@ (n_h :> c_h) @@ (n_e :> c_e) @@
  (n_q :> c_q) @@ (n_p :> c_p) @@ (n_Of :> c_f) @@
  (n_s :> c_s) @@ (n_a :> c_a) @@ (n_b :> c_b)

\* ReadToString that reads a file it cannot open as an empty one
ReadToString_Lenient(name) ==
  [is_err |-> FALSE,
   contents |-> IF name \in DOMAIN Files THEN Files[name] ELSE <<>>]

\* File::open(cwd.join(name)).and_then(read_to_string)
ReadToString(name) ==
  IF name \in DOMAIN Files
    THEN [is_err |-> FALSE, contents |-> Files[name]]
    ELSE [is_err |-> TRUE, contents |-> <<>>]

\* ------------------------------------------------------------------------
\* ExpandAtArgs: the iterator that expands `-@file` arguments
\* ------------------------------------------------------------------------

\* ExpandAtArgs::new: the stack holds the arguments reversed, its top last
ExpandAtArgsNew(args) == Reverse(args)

ExpandSome(arg, rest) == [ret |-> "Some", tok |-> arg, stack |-> rest]

\* PushArgs that pushes the arguments in the order of the file
PushArgs_Unreversed(rest, new_args) == rest \o new_args

\* The extension of the stack by a file's arguments, reversed
PushArgs(rest, new_args) == rest \o Reverse(new_args)

\* An iteration with a guard: a file that names itself is not expanded
ExpandIter_SelfGuard(stack) ==
  IF stack = <<>>
    THEN [ret |-> "None", tok |-> <<>>, stack |-> stack]
    ELSE
      LET arg == stack[Len(stack)]
          rest == SubSeq(stack, 1, Len(stack) - 1)
          value == Drop(arg, Len(s_at))
          res == ReadToString(value)
          new_args == SplitWhitespace(res.contents)
      IN  IF ~StartsWith(arg, s_at) THEN ExpandSome(arg, rest)
          ELSE IF \/ StartsWith(value, <<"E">>)
                  \/ StartsWith(value, <<"O">>)
                  \/ StartsWith(value, <<"@">>) THEN ExpandSome(arg, rest)
          ELSE IF res.is_err THEN ExpandSome(arg, rest)
          ELSE IF Contains(res.contents, "\"") \/ Contains(res.contents, "'")
            THEN ExpandSome(arg, rest)
          ELSE IF \E k \in DOMAIN new_args : new_args[k] = arg
            THEN ExpandSome(arg, rest)
          ELSE [ret |-> "Continue", tok |-> <<>>,
                stack |-> PushArgs(rest, new_args)]

\* One iteration of the loop of ExpandAtArgs::next on the stack: it returns
\* None, returns Some(tok), or pushes a file's arguments and goes round again.
ExpandIter(stack) ==
  IF stack = <<>>
    THEN [ret |-> "None", tok |-> <<>>, stack |-> stack]
    ELSE
      LET arg == stack[Len(stack)]
          rest == SubSeq(stack, 1, Len(stack) - 1)
          value == Drop(arg, Len(s_at))
          res == ReadToString(value)
      IN  IF ~StartsWith(arg, s_at) THEN ExpandSome(arg, rest)
          ELSE IF \/ StartsWith(value, <<"E">>)
                  \/ StartsWith(value, <<"O">>)
                  \/ StartsWith(value, <<"@">>) THEN ExpandSome(arg, rest)
          ELSE IF res.is_err THEN ExpandSome(arg, rest)
          ELSE IF Contains(res.contents, "\"") \/ Contains(res.contents, "'")
            THEN ExpandSome(arg, rest)
          ELSE [ret |-> "Continue", tok |-> <<>>,
                stack |-> PushArgs(rest, SplitWhitespace(res.contents))]

\* ExpandAtArgs::next: the loop, run until it returns
RECURSIVE ExpandNext(_)
ExpandNext(stack) ==
  LET r == ExpandIter(stack)
  IN  IF r.ret = "Continue" THEN ExpandNext(r.stack) ELSE r

\* All that ExpandAtArgs returns from a stack, until None
RECURSIVE ExpandAll(_)
ExpandAll(stack) ==
  LET r == ExpandNext(stack)
  IN  IF r.ret = "None" THEN <<>> ELSE <<r.tok>> \o ExpandAll(r.stack)

\* ------------------------------------------------------------------------
\* Argument: a classified argument, and the matcher ArgsIter that makes it
\* ------------------------------------------------------------------------

ArgRaw(s) ==
  [kind |-> "Raw", flag |-> <<>>, val |-> s, disp |-> "None", delim |-> "",
   data |-> "None"]

ArgUnknownFlag(s) ==
  [kind |-> "UnknownFlag", flag |-> <<>>, val |-> s, disp |-> "None",
   delim |-> "", data |-> "None"]

ArgFlag(s, d) ==
  [kind |-> "Flag", flag |-> s, val |-> <<>>, disp |-> "None", delim |-> "",
   data |-> d]

ArgWithValue(s, v, disp, delim, d) ==
  [kind |-> "WithValue", flag |-> s, val |-> v, disp |-> disp,
   delim |-> delim, data |-> d]

\* Whether a table entry is the one for a token: a flag and a flag taking a
\* separate value match the whole token; a flag whose value may be
\* concatenated matches as a prefix, followed by its delimiter if it has one.
InfoMatches(info, arg) ==
  IF info.kind = "Flag" \/ info.disp = "Separated"
    THEN info.flag = arg
    ELSE IF info.delim = ""
      THEN StartsWith(arg, info.flag)
      ELSE \/ info.flag = arg
           \/ /\ Len(arg) > Len(info.flag)
              /\ StartsWith(arg, info.flag)
              /\ arg[Len(info.flag) + 1] = info.delim

\* The entry of the sorted table for a token, 0 when there is none: of
\* several matching entries the last, which has the longest flag text.
Search(arg) ==
  LET m == {i \in DOMAIN ARGS : InfoMatches(ARGS[i], arg)}
  IN  IF m = {} THEN 0 ELSE CHOOSE i \in m : \A j \in m : j <= i

\* ArgInfo::process: the argument a matched token makes, taking the next
\* token of the expanded stream where its value is a separate token.
Process(info, arg, stack) ==
  LET nxt == ExpandNext(stack)
      len == IF /\ info.delim # ""
                /\ Len(arg) > Len(info.flag)
                /\ arg[Len(info.flag) + 1] = info.delim
               THEN Len(info.flag) + 1 ELSE Len(info.flag)
  IN  IF info.kind = "Flag"
        THEN [kind |-> "Arg", arg |-> ArgFlag(info.flag, info.data), stack |-> stack,
              toks |-> <<arg>>]
      ELSE IF info.disp = "Separated"
        THEN IF nxt.ret = "None"
               THEN [kind |-> "Err", arg |-> ArgRaw(<<>>), stack |-> nxt.stack,
                     toks |-> <<arg>>]
               ELSE [kind |-> "Arg",
                     arg |-> ArgWithValue(info.flag, nxt.tok, "Separated", "", info.data),
                     stack |-> nxt.stack, toks |-> <<arg, nxt.tok>>]
      ELSE IF info.disp = "Concatenated"
        THEN [kind |-> "Arg",
              arg |-> ArgWithValue(info.flag, Drop(arg, len), "Concatenated",
                                   info.delim, info.data),
              stack |-> stack, toks |-> <<arg>>]
      \* CanBeSeparated
      ELSE IF arg = info.flag
        THEN IF nxt.ret = "None"
               THEN IF info.delim = ""
                      THEN [kind |-> "Arg",
                            arg |-> ArgWithValue(info.flag, <<>>, "Concatenated",
                                                 info.delim, info.data),
                            stack |-> nxt.stack, toks |-> <<arg>>]
                      ELSE [kind |-> "Err", arg |-> ArgRaw(<<>>), stack |-> nxt.stack,
                            toks |-> <<arg>>]
               ELSE [kind |-> "Arg",
                     arg |-> ArgWithValue(info.flag, nxt.tok, "CanBeConcatenated",
                                          info.delim, info.data),
                     stack |-> nxt.stack, toks |-> <<arg, nxt.tok>>]
        ELSE [kind |-> "Arg",
              arg |-> ArgWithValue(info.flag, Drop(arg, len), "CanBeSeparated",
                                   info.delim, info.data),
              stack |-> stack, toks |-> <<arg>>]

\* ArgsIter::next on the expanded stream: None at its end, else a parse
\* error or the next classified argument, with the stack it leaves and the
\* tokens it took from the expanded stream.
ArgsIterNext(stack) ==
  LET r == ExpandNext(stack)
      i == Search(r.tok)
  IN  IF r.ret = "None"
        THEN [kind |-> "None", arg |-> ArgRaw(<<>>), stack |-> r.stack,
              toks |-> <<>>]
      ELSE IF i = 0
        THEN [kind |-> "Arg",
              arg |-> IF StartsWith(r.tok, s_dash)
                        THEN ArgUnknownFlag(r.tok) ELSE ArgRaw(r.tok),
              stack |-> r.stack, toks |-> <<r.tok>>]
      ELSE Process(ARGS[i], r.tok, r.stack)

\* Argument::flag_str: <<text>>, or <<>> for None
flag_str(arg) ==
  IF arg.kind \in {"Flag", "WithValue"} THEN <<arg.flag>> ELSE <<>>

\* Argument::get_data: the semantic tag, "None" for a bare token or an
\* unrecognized flag
get_data(arg) == IF arg.kind \in {"Flag", "WithValue"} THEN arg.data ELSE "None"

\* Argument::normalize: an argument whose spec allows both spellings takes
\* the preferred one; any other argument is left as it is.
normalize(arg, disposition) ==
  IF arg.kind = "WithValue" /\ arg.disp \in {"CanBeConcatenated", "CanBeSeparated"}
    THEN [arg EXCEPT !.disp = IF disposition = "Separated"
                                 THEN "Separated" ELSE "Concatenated"]
    ELSE arg

\* Argument::iter_os_strings: the tokens an argument is written as
iter_os_strings(arg) ==
  IF arg.kind \in {"Raw", "UnknownFlag"} THEN <<arg.val>>
  ELSE IF arg.kind = "Flag" THEN <<arg.flag>>
  ELSE IF arg.disp \in {"CanBeSeparated", "Concatenated"}
    THEN <<arg.flag
           \o (IF arg.delim # "" /\ arg.val # <<>> THEN <<arg.delim>> ELSE <<>>)
           \o arg.val>>
    ELSE <<arg.flag, arg.val>>

\* ------------------------------------------------------------------------
\* Paths and languages
\* ------------------------------------------------------------------------

x_c == <<"c">>
x_C == <<"C">>
x_cc == <<"c", "c">>
x_cpp == <<"c", "p", "p">>
x_cxx == <<"c", "x", "x">>
x_m == <<"m">>
x_mm == <<"m", "m">>
x_o == <<"o">>

\* The positions of c in s
Positions(s, c) == {i \in 1..Len(s) : s[i] = c}

Last(S) == CHOOSE i \in S : \A j \in S : j <= i

\* Path::file_name: what follows the last separator; <<>> for none
FileName(p) ==
  LET name == IF Positions(p, "/") = {} THEN p ELSE Drop(p, Last(Positions(p, "/")))
  IN  IF name = <<".", ".">> THEN <<>> ELSE name

\* The position of the dot that starts the extension of a file name, 0 when
\* it has none (no dot, or only a leading one)
ExtensionDot(name) ==
  IF Positions(name, ".") = {} \/ Last(Positions(name, ".")) = 1
    THEN 0 ELSE Last(Positions(name, "."))

\* Path::extension: <<ext>>, or <<>> for None
Extension(p) ==
  LET name == FileName(p)
  IN  IF name = <<>> \/ ExtensionDot(name) = 0
        THEN <<>> ELSE <<Drop(name, ExtensionDot(name))>>

\* Path::with_extension
WithExtension(p, ext) ==
  LET name == FileName(p)
      dot == ExtensionDot(name)
      stem == IF dot = 0 THEN p ELSE SubSeq(p, 1, Len(p) - (Len(name) - dot + 1))
  IN  IF name = <<>> THEN p
      ELSE IF ext = <<>> THEN stem ELSE stem \o <<".">> \o ext

\* Language::from_file_name: <<language>>, or <<>> for None
LanguageFromFileName(file) ==
  LET e == Extension(file)
  IN  IF e = <<>> THEN <<>>
      ELSE IF e[1] = x_c THEN <<"C">>
      ELSE IF e[1] \in {x_C, x_cc, x_cpp, x_cxx} THEN <<"Cxx">>
      ELSE IF e[1] = x_m THEN <<"ObjectiveC">>
      ELSE IF e[1] = x_mm THEN <<"ObjectiveCxx">>
      ELSE <<>>

\* ------------------------------------------------------------------------
\* parse_arguments
\* ------------------------------------------------------------------------

NotCompilation == [kind |-> "NotCompilation", reason |-> <<>>, parsed |-> <<>>]

\* cannot_cache!(why)
CannotCache(why) == [kind |-> "CannotCache", reason |-> why, parsed |-> <<>>]

Ok(parsed_args) == [kind |-> "Ok", reason |-> <<>>, parsed |-> <<parsed_args>>]

\* A panic: unreachable!() or a failed expect()
Panic == [kind |-> "Panic", reason |-> <<>>, parsed |-> <<>>]

\* No result yet
Running == [kind |-> "Running", reason |-> <<>>, parsed |-> <<>>]

\* AtValue for every disposition
AtValue_AnyDisposition(arg) ==
  arg.kind = "WithValue" /\ StartsWith(arg.val, s_atsign)

\* The check of an argument's value for a leading '@': all dispositions
\* but Concatenated
AtValue(arg) ==
  /\ arg.kind = "WithValue"
  /\ arg.disp \in {"Separated", "CanBeConcatenated", "CanBeSeparated"}
  /\ StartsWith(arg.val, s_atsign)

\* IsTooHard that knows only the flags taking a value
IsTooHard_ValueOnly(data) == data = "TooHard"

\* The data that make an invocation too hard to cache
IsTooHard(data) == data \in {"TooHardFlag", "TooHard"}

\* TakeInput without the record of a second input
TakeInput_Forgetful(l, val) == [l EXCEPT !.input_arg = <<val>>]

\* A bare token is the input; a second one makes the inputs multiple
TakeInput(l, val) ==
  [l EXCEPT !.multiple_input = (l.input_arg # <<>>) \/ l.multiple_input,
            !.input_arg = <<val>>]

\* The first match on the argument's data: the result it returns at once
\* (Running: none) and the variables it sets
RoleDispatch(l, arg) ==
  LET data == get_data(arg)
  IN  IF IsTooHard(data)
        THEN [l EXCEPT !.result = IF flag_str(arg) = <<>>
                                    THEN Panic ELSE CannotCache(flag_str(arg)[1])]
      ELSE IF data = "DoCompilation" THEN [l EXCEPT !.compilation = TRUE]
      ELSE IF data = "Output" THEN [l EXCEPT !.output_arg = <<arg.val>>]
      ELSE IF data \in {"PreprocessorArgument", "PreprocessorArgumentFlag",
                        "PreprocessorArgumentPath", "PassThrough"} THEN l
      ELSE IF arg.kind = "Raw"
        THEN TakeInput(l, arg.val)
      ELSE IF arg.kind = "UnknownFlag" THEN l
      ELSE [l EXCEPT !.result = Panic]

\* BucketOf that drops the flags the table does not know
BucketOf_UnknownDropped(arg) ==
  LET data == get_data(arg)
  IN  IF data = "PassThrough" THEN "common_args"
      ELSE IF data \in {"PreprocessorArgumentFlag", "PreprocessorArgument",
                        "PreprocessorArgumentPath"} THEN "preprocessor_args"
      ELSE "continue"

\* The second match: the vector the argument is appended to
BucketOf(arg) ==
  LET data == get_data(arg)
  IN  IF data = "PassThrough" THEN "common_args"
      ELSE IF data \in {"PreprocessorArgumentFlag", "PreprocessorArgument",
                        "PreprocessorArgumentPath"} THEN "preprocessor_args"
      ELSE IF data \in {"DoCompilation", "Output"} THEN "continue"
      ELSE IF IsTooHard(data) THEN "unreachable"
      ELSE IF arg.kind = "Raw" THEN "continue"
      ELSE IF arg.kind = "UnknownFlag" THEN "common_args"
      ELSE "unreachable"

\* NormOf that prefers the separate value for every flag
NormOf_Separated(arg) == "Separated"

\* The disposition an argument is normalized to
NormOf(arg) ==
  IF flag_str(arg) # <<>> /\ Len(flag_str(arg)[1]) = 2
    THEN "Concatenated" ELSE "Separated"

\* The extension of the chosen vector by the normalized argument
ExtendArgs(l, arg) ==
  LET strings == iter_os_strings(normalize(arg, NormOf(arg)))
  IN  IF BucketOf(arg) = "common_args"
        THEN [l EXCEPT !.common_args = @ \o strings]
      ELSE IF BucketOf(arg) = "preprocessor_args"
        THEN [l EXCEPT !.preprocessor_args = @ \o strings]
      ELSE IF BucketOf(arg) = "unreachable" THEN [l EXCEPT !.result = Panic]
      ELSE l

\* A loop body whose role dispatch does not return for a too-hard argument
LoopBody_FallsThrough(l, arg) ==
  IF AtValue(arg) THEN [l EXCEPT !.result = CannotCache(s_atsign)]
  ELSE ExtendArgs(RoleDispatch(l, arg), arg)

\* The body of the loop for one classified argument
LoopBody(l, arg) ==
  IF AtValue(arg) THEN [l EXCEPT !.result = CannotCache(s_atsign)]
  ELSE LET d == RoleDispatch(l, arg)
       IN  IF d.result # Running THEN d ELSE ExtendArgs(d, arg)

\* OutputOf that overlooks the output given
OutputOf_Derived(output_arg, input) == WithExtension(input, x_o)

\* The output: the one given, else the input with the extension "o"
OutputOf(output_arg, input) ==
  IF output_arg # <<>> THEN output_arg[1] ELSE WithExtension(input, x_o)

\* Finish with the checks of the input before the check for a compilation
Finish_InputFirst(l) ==
  IF l.multiple_input THEN CannotCache(s_multiple_input_files)
  ELSE IF l.input_arg = <<>> THEN CannotCache(s_no_input_file)
  ELSE IF LanguageFromFileName(l.input_arg[1]) = <<>>
    THEN CannotCache(s_unknown_source_language)
  ELSE NotCompilation

\* What follows the loop: the checks in their order, and the result
Finish(l) ==
  LET input == l.input_arg[1]
      language == LanguageFromFileName(input)
      output == OutputOf(l.output_arg, input)
  IN  IF ~l.compilation THEN NotCompilation
      ELSE IF l.multiple_input THEN CannotCache(s_multiple_input_files)
      ELSE IF l.input_arg = <<>> THEN CannotCache(s_no_input_file)
      ELSE IF language = <<>> THEN CannotCache(s_unknown_source_language)
      ELSE Ok([input |-> input,
               language |-> language[1],
               depfile |-> <<>>,
               outputs |-> [k \in {"obj"} |-> output],
               preprocessor_args |-> l.preprocessor_args,
               common_args |-> l.common_args,
               extra_hash_files |-> <<>>,
               msvc_show_includes |-> FALSE,
               profile_generate |-> FALSE,
               color_mode |-> "Auto"])

\* The local variables as parse_arguments declares them
InitLocals ==
  [common_args |-> <<>>, compilation |-> FALSE, input_arg |-> <<>>,
   multiple_input |-> FALSE, output_arg |-> <<>>, preprocessor_args |-> <<>>,
   result |-> Running]

\* The loop over the classified arguments of a stack, and what follows it:
\* the local variables at the return, with the result
RECURSIVE RunLoop(_, _)
RunLoop(stack, l) ==
  LET n == ArgsIterNext(stack)
      m == LoopBody(l, n.arg)
  IN  IF n.kind = "None" THEN [l EXCEPT !.result = Finish(l)]
      ELSE IF n.kind = "Err" THEN [l EXCEPT !.result = CannotCache(s_argument_parse)]
      ELSE IF m.result # Running THEN m
      ELSE RunLoop(n.stack, m)

\* parse_arguments as a function of the command line
ParseArguments(args) == RunLoop(ExpandAtArgsNew(args), InitLocals).result

\* ------------------------------------------------------------------------
\* The commands made from the parsed arguments
\* ------------------------------------------------------------------------

\* preprocess: the arguments of the command it runs
PreprocessArguments(parsed_args) ==
  <<s_E, parsed_args.input>> \o parsed_args.preprocessor_args
                             \o parsed_args.common_args

\* GenerateCompileCommands with the common arguments before the
\* preprocessor arguments
GenerateCompileCommands_CommonFirst(parsed_args) ==
  [is_err |-> FALSE, err |-> <<>>,
   arguments |-> <<s_c, parsed_args.input, s_o, parsed_args.outputs["obj"]>>
                 \o parsed_args.common_args
                 \o parsed_args.preprocessor_args,
   cacheable |-> "Yes"]

\* generate_compile_commands: an error, or the command's arguments and the
\* marker Cacheable::Yes
GenerateCompileCommands(parsed_args) ==
  IF "obj" \notin DOMAIN parsed_args.outputs
    THEN [is_err |-> TRUE, err |-> s_Missing_obj, arguments |-> <<>>,
          cacheable |-> "None"]
    ELSE [is_err |-> FALSE, err |-> <<>>,
          arguments |-> <<s_c, parsed_args.input, s_o, parsed_args.outputs["obj"]>>
                        \o parsed_args.preprocessor_args
                        \o parsed_args.common_args,
          cacheable |-> "Yes"]

\* ------------------------------------------------------------------------
\* The invocations checked
\* ------------------------------------------------------------------------

t_foo_c == <<"f", "o", "o", ".", "c">>
t_bar_c == <<"b", "a", "r", ".", "c">>
t_foo_o == <<"f", "o", "o", ".", "o">>
t_foo_z == <<"f", "o", "o", ".", "z">>
t_foo_cc == <<"f", "o", "o", ".", "c", "c">>
t_fabc == <<"-", "f", "a", "b", "c">>
t_include == <<"i", "n", "c", "l", "u", "d", "e">>
t_file == <<"f", "i", "l", "e">>
t_Iinclude == <<"-", "I", "i", "n", "c", "l", "u", "d", "e">>
t_includefile == <<"-", "i", "n", "c", "l", "u", "d", "e", "f", "i", "l", "e">>
t_atx == <<"@", "x">>
t_Iatx == <<"-", "I", "@", "x">>
t_target_atx == <<"-", "X", "m", "a", "k", "e", "-", "d", "e", "p", "e", "n", "d", "e", "n", "c", "y", "-", "t", "a", "r", "g", "e", "t", "=", "@", "x">>
t_target_foo == <<"-", "X", "m", "a", "k", "e", "-", "d", "e", "p", "e", "n", "d", "e", "n", "c", "y", "-", "t", "a", "r", "g", "e", "t", "=", "f", "o", "o">>
t_at_f == <<"-", "@", "f">>
t_at_g == <<"-", "@", "g">>
t_at_h == <<"-", "@", "h">>
t_at_e == <<"-", "@", "e">>
t_at_q == <<"-", "@", "q">>
t_at_p == <<"-", "@", "p">>
t_at_Of == <<"-", "@", "O", "f">>
t_at_m == <<"-", "@", "m">>
t_at_s == <<"-", "@", "s">>
t_at_a == <<"-", "@", "a">>
t_at_Efoo == <<"-", "@", "E", "=", "f", "o", "o">>
t_at_atfoo == <<"-", "@", "@", "f", "o", "o">>

\* The longest command line drawn from a set of tokens
MaxArgs == 3

SeqsUpTo(U, n) == UNION {[1..k -> U] : k \in 0..n}

\* The command lines of the tests
TestInputs ==
  { <<s_c, t_foo_c, s_o, t_foo_o>>,
    <<s_c, t_foo_c>>,
    <<s_c, t_foo_cc, t_fabc, s_o, t_foo_o, <<"-", "m", "x", "y", "z">>>>,
    <<s_c, t_foo_c, t_fabc, s_I, t_include, s_o, t_foo_o, s_include, t_file>>,
    <<s_c, t_foo_c, t_fabc, s_Xmd, s_Xmd_canon,
      s_Xmd_savefile \o <<"=", "b", "a", "r">>, t_target_foo, s_o, t_foo_o>>,
    <<s_o, <<"f", "o", "o">>>>,
    <<s_c, t_foo_c, s_o, t_foo_o, t_bar_c>>,
    <<<<"-", "s", "h", "a", "r", "e", "d">>, t_foo_o, s_o,
      <<"f", "o", "o", ".", "s", "o">>, <<"b", "a", "r", ".", "o">>>>,
    <<s_hh, s_c, t_foo_c>>,
    <<s_hhh, s_c, t_foo_c>> }

\* ------------------------------------------------------------------------
\* The state of one call of parse_arguments, and of the commands made from
\* its result
\* ------------------------------------------------------------------------

VARIABLES
  arguments,          \* the command line given
  stack,              \* ExpandAtArgs.stack, its top last
  common_args,
  compilation,
  input_arg,          \* <<>> for None, else <<input>>
  multiple_input,
  output_arg,         \* <<>> for None, else <<output>>
  preprocessor_args,
  result,             \* what parse_arguments returned; Running before
  preprocess_cmd,     \* <<>>, then <<the arguments preprocess runs>>
  compile_cmd,        \* <<>>, then <<what generate_compile_commands returned>>
  expanded,           \* history: the tokens ExpandAtArgs has returned
  seen,               \* history: the arguments the loop has taken
  ended,              \* ExpandAtArgs taken by steps: it has returned None
  reads               \* ExpandAtArgs taken by steps: history of the files
                      \* read, each with what was returned and pending then

vars ==
  <<arguments, stack, common_args, compilation, input_arg, multiple_input,
    output_arg, preprocessor_args, result, preprocess_cmd, compile_cmd,
    expanded, seen, ended, reads>>

\* The local variables of parse_arguments and its result
Locals ==
  [common_args |-> common_args, compilation |-> compilation,
   input_arg |-> input_arg, multiple_input |-> multiple_input,
   output_arg |-> output_arg, preprocessor_args |-> preprocessor_args,
   result |-> result]

SetLocals(l) ==
  /\ common_args' = l.common_args
  /\ compilation' = l.compilation
  /\ input_arg' = l.input_arg
  /\ multiple_input' = l.multiple_input
  /\ output_arg' = l.output_arg
  /\ preprocessor_args' = l.preprocessor_args
  /\ result' = l.result

\* The entry of `seen` for an item of ArgsIter that is a parse error
ParseError ==
  [kind |-> "ParseError", flag |-> <<>>, val |-> <<>>, disp |-> "None",
   delim |-> "", data |-> "None"]

InitOver(Inputs) ==
  /\ arguments \in Inputs
  /\ stack = ExpandAtArgsNew(arguments)
  /\ common_args = <<>>
  /\ compilation = FALSE
  /\ input_arg = <<>>
  /\ multiple_input = FALSE
  /\ output_arg = <<>>
  /\ preprocessor_args = <<>>
  /\ result = Running
  /\ preprocess_cmd = <<>>
  /\ compile_cmd = <<>>
  /\ expanded = <<>>
  /\ seen = <<>>
  /\ ended = FALSE
  /\ reads = <<>>

\* The loop takes one classified argument
LoopArg ==
  /\ result = Running
  /\ LET n == ArgsIterNext(stack)
     IN  /\ n.kind = "Arg"
         /\ stack' = n.stack
         /\ expanded' = expanded \o n.toks
         /\ seen' = Append(seen, n.arg)
         /\ SetLocals(LoopBody(Locals, n.arg))
  /\ UNCHANGED <<ended, reads>>
  /\ UNCHANGED <<arguments, preprocess_cmd, compile_cmd>>

\* A loop that drops an item that is a parse error and goes on
LoopParseError_Dropped ==
  /\ result = Running
  /\ LET n == ArgsIterNext(stack)
     IN  /\ n.kind = "Err"
         /\ stack' = n.stack
         /\ expanded' = expanded \o n.toks
         /\ seen' = Append(seen, ParseError)
  /\ UNCHANGED <<ended, reads>>
  /\ UNCHANGED <<arguments, common_args, compilation, input_arg, multiple_input,
                 output_arg, preprocessor_args, result, preprocess_cmd,
                 compile_cmd>>

\* The loop takes a parse error: try_or_cannot_cache!
LoopParseError ==
  /\ result = Running
  /\ LET n == ArgsIterNext(stack)
     IN  /\ n.kind = "Err"
         /\ stack' = n.stack
         /\ expanded' = expanded \o n.toks
         /\ seen' = Append(seen, ParseError)
         /\ result' = CannotCache(s_argument_parse)
  /\ UNCHANGED <<ended, reads>>
  /\ UNCHANGED <<arguments, common_args, compilation, input_arg, multiple_input,
                 output_arg, preprocessor_args, preprocess_cmd, compile_cmd>>

\* The arguments are exhausted: the checks after the loop
LoopEnd ==
  /\ result = Running
  /\ LET n == ArgsIterNext(stack)
     IN  /\ n.kind = "None"
         /\ stack' = n.stack
         /\ result' = Finish(Locals)
  /\ UNCHANGED <<ended, reads>>
  /\ UNCHANGED <<arguments, common_args, compilation, input_arg, multiple_input,
                 output_arg, preprocessor_args, preprocess_cmd, compile_cmd,
                 expanded, seen>>

\* preprocess is called with the parsed arguments
Preprocess ==
  /\ result.kind = "Ok"
  /\ preprocess_cmd = <<>>
  /\ preprocess_cmd' = <<PreprocessArguments(result.parsed[1])>>
  /\ UNCHANGED <<ended, reads>>
  /\ UNCHANGED <<arguments, stack, common_args, compilation, input_arg,
                 multiple_input, output_arg, preprocessor_args, result,
                 compile_cmd, expanded, seen>>

\* generate_compile_commands is called with the parsed arguments
GenerateCompile ==
  /\ result.kind = "Ok"
  /\ compile_cmd = <<>>
  /\ compile_cmd' = <<GenerateCompileCommands(result.parsed[1])>>
  /\ UNCHANGED <<ended, reads>>
  /\ UNCHANGED <<arguments, stack, common_args, compilation, input_arg,
                 multiple_input, output_arg, preprocessor_args, result,
                 preprocess_cmd, expanded, seen>>

Next == LoopArg \/ LoopParseError \/ LoopEnd \/ Preprocess \/ GenerateCompile

\* Command lines of flags, inputs and outputs, and the tests' command lines
Tokens ==
  {s_c, s_o, t_foo_c, t_bar_c, t_foo_z, s_E, s_hhh, s_VV, t_fabc, s_I, t_at_g}

Init == InitOver(SeqsUpTo(Tokens, MaxArgs) \cup TestInputs)

Spec == Init /\ [][Next]_vars

\* Command lines with `-@` arguments of every kind: files that are read,
\* nested, empty, quoted or missing, and names that are options
TokensAt ==
  {s_c, s_o, t_foo_c, t_at_f, t_at_g, t_at_h, t_at_e, t_at_q, t_at_p,
   t_at_Of, t_at_m, t_at_Efoo, t_at_atfoo}

InitAt == InitOver(SeqsUpTo(TokensAt, MaxArgs))

SpecAt == InitAt /\ [][Next]_vars

\* Command lines of flags with values in both spellings, of flags for
\* both vectors and of flags for neither; the command line of the example
\* `-c foo.c -fabc -I include -include file -o foo.o` in four interleavings
TokensBuckets ==
  {s_c, s_o, t_foo_c, s_I, t_include, t_Iinclude, s_include, t_file,
   t_includefile, s_L, t_target_foo, t_fabc, t_at_h}

Interleavings ==
  { <<s_c, t_foo_c, t_fabc, s_I, t_include, s_include, t_file, s_o, t_foo_o>>,
    <<s_o, t_foo_o, s_I, t_include, t_fabc, s_c, s_include, t_file, t_foo_c>>,
    <<t_Iinclude, t_includefile, t_fabc, t_foo_c, s_o, t_foo_o, s_c>>,
    <<s_I, t_include, s_c, t_includefile, s_o, t_foo_o, t_foo_c, t_fabc>> }

InitBuckets ==
  InitOver(SeqsUpTo(TokensBuckets, MaxArgs) \cup Interleavings \cup TestInputs)

SpecBuckets == InitBuckets /\ [][Next]_vars

\* Command lines with values that begin with '@', in every attachment
TokensValue ==
  {s_c, s_o, t_foo_c, s_I, s_include, s_L, t_atx, t_Iatx, t_target_atx,
   t_at_atfoo}

InitValue == InitOver(SeqsUpTo(TokensValue, MaxArgs))

SpecValue == InitValue /\ [][Next]_vars

\* Command lines that may end in a flag whose value is a separate token,
\* after flags of every role, an input and an empty `-@` file
TokensMalformed ==
  {s_c, s_o, s_L, s_W, s_l, s_t, s_I, t_foo_c, s_E, t_fabc, t_at_e}

InitMalformed == InitOver(SeqsUpTo(TokensMalformed, MaxArgs))

SpecMalformed == InitMalformed /\ [][Next]_vars

\* ------------------------------------------------------------------------
\* ExpandAtArgs taken by steps: one action is one iteration of the loop of
\* ExpandAtArgs::next, so that a call of next that never returns is a
\* behaviour. The tokens returned and the files read are histories that
\* grow without end when a file names itself: the steps stop at MaxEmitted
\* tokens and MaxReads reads, which no expansion that ends comes near.
\* ------------------------------------------------------------------------

MaxEmitted == 16
MaxReads == 8

\* The iteration pops the last token: next returns None, for good
NextReturnsNone ==
  /\ ~ended
  /\ ExpandIter(stack).ret = "None"
  /\ ended' = TRUE
  /\ UNCHANGED <<arguments, stack, common_args, compilation, input_arg,
                 multiple_input, output_arg, preprocessor_args, result,
                 preprocess_cmd, compile_cmd, expanded, seen, reads>>

\* The iteration pops a token that is returned as it is
NextReturnsSome ==
  /\ ~ended
  /\ Len(expanded) < MaxEmitted
  /\ LET r == ExpandIter(stack)
     IN  /\ r.ret = "Some"
         /\ stack' = r.stack
         /\ expanded' = Append(expanded, r.tok)
  /\ UNCHANGED <<arguments, common_args, compilation, input_arg,
                 multiple_input, output_arg, preprocessor_args, result,
                 preprocess_cmd, compile_cmd, seen, ended, reads>>

\* The iteration pops an `-@name` token, reads the file and pushes its
\* arguments; the loop goes round again
NextReadsFile ==
  /\ ~ended
  /\ Len(reads) < MaxReads
  /\ LET r == ExpandIter(stack)
     IN  /\ r.ret = "Continue"
         /\ stack' = r.stack
         /\ reads' = Append(reads, [name |-> Drop(stack[Len(stack)], Len(s_at)),
                                    returned |-> Len(expanded),
                                    pending |-> Len(stack) - 1])
  /\ UNCHANGED <<arguments, common_args, compilation, input_arg,
                 multiple_input, output_arg, preprocessor_args, result,
                 preprocess_cmd, compile_cmd, expanded, seen, ended>>

NextExpand == NextReturnsNone \/ NextReturnsSome \/ NextReadsFile

\* Command lines of a flag and of `-@` arguments for files that end (g
\* names f, e is empty), for a missing file and for files that name
\* themselves: s directly, a through b after a token
TokensExpand == {s_c, t_at_g, t_at_e, t_at_m, t_at_s, t_at_a}

InitExpand == InitOver(SeqsUpTo(TokensExpand, MaxArgs))

\* The caller goes on pulling and the loop goes on: an iteration that can
\* be taken is taken.
SpecExpand == InitExpand /\ [][NextExpand]_vars /\ WF_vars(NextExpand)

\* ------------------------------------------------------------------------
\* Properties
\* ------------------------------------------------------------------------

\* parse_arguments has returned
Returned == result.kind # "Running"

\* The arguments taken so far that satisfy P
SeenWhere(P(_)) == {i \in DOMAIN seen : P(seen[i])}

IsRaw(a) == a.kind = "Raw"
IsCompileStep(a) == a.data = "DoCompilation"
IsOutput(a) == a.data = "Output"
IsTooHardTagged(a) == a.data \in {"TooHardFlag", "TooHard"}
HasAtValue(a) == a.kind = "WithValue" /\ a.val # <<>> /\ a.val[1] = "@"
IsParseError(a) == a.kind = "ParseError"

\* No argument taken is one that aborts the classification
NoAbortSeen ==
  \A i \in DOMAIN seen :
    ~IsTooHardTagged(seen[i]) /\ ~HasAtValue(seen[i]) /\ ~IsParseError(seen[i])

\* The flags of the class that forces an invocation non-cacheable
TooHardFlags == {s_dash, s_hh, s_hhh, s_E, s_P, s_S, s_V, s_VV}

\* C1: when the whole expanded token sequence has been classified without
\* an abort (no too-hard flag, no parse error, no value starting with '@')
\* and no compile-step flag -c was among the arguments, parse_arguments
\* returns NotCompilation, whatever the number of bare tokens and whatever
\* the extension of the input.
C1_NoCompileFlagIsNotCompilation ==
  (Returned /\ NoAbortSeen /\ SeenWhere(IsCompileStep) = {})
    => result = NotCompilation

\* C1 witness: two bare tokens and no -c, returned as NotCompilation
C1_Witness ==
  /\ Returned
  /\ NoAbortSeen
  /\ SeenWhere(IsCompileStep) = {}
  /\ Cardinality(SeenWhere(IsRaw)) >= 2
  /\ result = NotCompilation

\* C2 as stated: whenever the classified token sequence does not hold
\* exactly one bare positional token, the verdict is CannotCache, "multiple
\* input files" for two or more and "no input file" for none, whatever
\* other flags are present.
C2_Original ==
  (Returned /\ stack = <<>>) =>
    /\ Cardinality(SeenWhere(IsRaw)) >= 2
         => result = CannotCache(s_multiple_input_files)
    /\ Cardinality(SeenWhere(IsRaw)) = 0
         => result = CannotCache(s_no_input_file)

\* C2 as amended: when the whole sequence has been classified without an
\* abort and a compile-step flag -c was among the arguments, two or more
\* bare positional tokens give CannotCache "multiple input files" and none
\* gives CannotCache "no input file", whatever the other flags and the order.
C2_OneInputOfCompilation ==
  (Returned /\ NoAbortSeen /\ SeenWhere(IsCompileStep) # {}) =>
    /\ Cardinality(SeenWhere(IsRaw)) >= 2
         => result = CannotCache(s_multiple_input_files)
    /\ Cardinality(SeenWhere(IsRaw)) = 0
         => result = CannotCache(s_no_input_file)

\* C2 witness: a compilation with two bare tokens, refused for them
C2_Witness ==
  /\ NoAbortSeen
  /\ SeenWhere(IsCompileStep) # {}
  /\ Cardinality(SeenWhere(IsRaw)) >= 2
  /\ result = CannotCache(s_multiple_input_files)

\* C3 as stated: a flag of the class that forces non-cacheable, at any
\* position of the command line, makes parse_arguments return CannotCache
\* with that flag's text as reason, whatever precedes or follows it (read
\* for the first such flag of the command line).
C3_Original ==
  Returned =>
    \A i \in DOMAIN arguments :
      (/\ arguments[i] \in TooHardFlags
       /\ \A j \in 1..(i - 1) : arguments[j] \notin TooHardFlags)
        => result = CannotCache(arguments[i])

\* C3 as amended: a flag of that class that is classified as an argument
\* (not taken as the value of the flag before it), with no aborting
\* argument before it, makes parse_arguments return CannotCache with that
\* flag's own text as reason, whatever else precedes or follows it.
C3_TooHardFlagCannotCache ==
  \A i \in DOMAIN seen :
    (/\ seen[i].kind = "Flag"
     /\ seen[i].data = "TooHardFlag"
     /\ \A j \in 1..(i - 1) :
          ~IsTooHardTagged(seen[j]) /\ ~HasAtValue(seen[j]))
      => /\ seen[i].flag \in TooHardFlags
         /\ result = CannotCache(seen[i].flag)

\* C3 witness: -### after a valid -c and an input, refused as "-###"
C3_Witness ==
  /\ SeenWhere(IsCompileStep) # {}
  /\ SeenWhere(IsRaw) # {}
  /\ seen[Len(seen)] = ArgFlag(s_hhh, "TooHardFlag")
  /\ result = CannotCache(s_hhh)

\* The output the arguments taken call for: the value of the last -o, else
\* the input with its extension replaced by "o"
ExpectedOutput(input) ==
  IF SeenWhere(IsOutput) = {}
    THEN WithExtension(input, x_o)
    ELSE seen[Last(SeenWhere(IsOutput))].val

\* C9: every Ok carries an output map with the one entry "obj", the path
\* given by the last -o or else the input with its extension replaced by
\* "o" (foo.c gives foo.o); generate_compile_commands on it never returns
\* the error "Missing object file output" and returns Cacheable::Yes.
C9_OkHasObjOutput ==
  result.kind = "Ok" =>
    LET pa == result.parsed[1]
    IN  /\ DOMAIN pa.outputs = {"obj"}
        /\ pa.outputs["obj"] = ExpectedOutput(pa.input)
        /\ (SeenWhere(IsOutput) = {} /\ pa.input = t_foo_c)
             => pa.outputs["obj"] = t_foo_o
        /\ compile_cmd # <<>> =>
             /\ ~compile_cmd[1].is_err
             /\ compile_cmd[1].cacheable = "Yes"

\* C9 witness: a compilation of foo.c with two -o, its command generated
C9_Witness ==
  /\ result.kind = "Ok"
  /\ Cardinality(SeenWhere(IsOutput)) >= 2
  /\ result.parsed[1].outputs["obj"] = t_foo_c
  /\ compile_cmd # <<>>
  /\ compile_cmd[1].cacheable = "Yes"

\* The name of an `-@name` token
AtName(tok) == SubSeq(tok, 3, Len(tok))

IsAtToken(tok) == Len(tok) >= 2 /\ tok[1] = "-" /\ tok[2] = "@"

\* The name is that of a text file under the working directory without a
\* quote character
ReadableQuoteFree(name) ==
  /\ name \in DOMAIN Files
  /\ \A k \in DOMAIN Files[name] : Files[name][k] \notin {"\"", "'"}

\* The name starts with E, O or @
OptionName(name) == name # <<>> /\ name[1] \in {"E", "O", "@"}

\* An `-@name` token of one of the cases of C4
Unexpandable(tok) ==
  IsAtToken(tok) /\ (OptionName(AtName(tok)) \/ ~ReadableQuoteFree(AtName(tok)))

\* The expander returns an unexpandable token of its stack as it is, once
\* the tokens above it are taken
ReturnedUnchanged ==
  \A i \in DOMAIN stack :
    Unexpandable(stack[i]) =>
      ExpandNext(SubSeq(stack, 1, i)) =
        [ret |-> "Some", tok |-> stack[i], stack |-> SubSeq(stack, 1, i - 1)]

Substituted(args, i) ==
  SubSeq(args, 1, i - 1) \o SplitWhitespace(Files[AtName(args[i])])
                         \o SubSeq(args, i + 1, Len(args))

\* The expander's output and the result are those of the command line
\* with the token at position i substituted
SameAsSubstituted(i) ==
  /\ ExpandAll(ExpandAtArgsNew(arguments))
       = ExpandAll(ExpandAtArgsNew(Substituted(arguments, i)))
  /\ Returned => result = ParseArguments(Substituted(arguments, i))

\* C5 as stated: for a command line with `-@name` at any position, name a
\* readable quote-free file, the expander's output is that for the line
\* with the token replaced by the whitespace-split contents of the file,
\* and parse_arguments returns the same verdict and parsed arguments.
C5_Original ==
  \A i \in DOMAIN arguments :
    (IsAtToken(arguments[i]) /\ ReadableQuoteFree(AtName(arguments[i])))
      => SameAsSubstituted(i)

\* C5 as amended: the same, for a name that does not start with E, O or @.
C5_ExpansionIsSubstitution ==
  \A i \in DOMAIN arguments :
    (/\ IsAtToken(arguments[i])
     /\ ReadableQuoteFree(AtName(arguments[i]))
     /\ ~OptionName(AtName(arguments[i])))
      => SameAsSubstituted(i)

\* C5 witness: a nested file after an output, parsed as the tokens
\* -c foo.c -o foo.o given directly
C5_Witness ==
  /\ Len(arguments) = 3
  /\ arguments[3] = t_at_g
  /\ expanded = <<s_o, t_foo_c, s_c, t_foo_c, s_o, t_foo_o>>
  /\ result.kind = "Ok"
  /\ result = ParseArguments(<<s_o, t_foo_c, s_c, t_foo_c, s_o, t_foo_o>>)

\* The last argument taken, when it did not end the classification
LastSeen == seen[Len(seen)]

\* s ends with t
EndsWith(s, t) ==
  Len(t) <= Len(s) /\ SubSeq(s, Len(s) - Len(t) + 1, Len(s)) = t

IsPreprocessorTagged(a) ==
  a.data \in {"PreprocessorArgument", "PreprocessorArgumentFlag",
              "PreprocessorArgumentPath"}
IsPassThroughTagged(a) == a.data = "PassThrough"
IsUnknownFlag(a) == a.kind = "UnknownFlag"
IsCommon(a) == IsPassThroughTagged(a) \/ IsUnknownFlag(a)

\* The vector an argument is for, by its tag
VectorOf(a) == IF IsPreprocessorTagged(a) THEN preprocessor_args ELSE common_args

\* The canonical form of C7: one token for a flag text of two characters,
\* the flag and the value otherwise
Canonical(a) ==
  IF Len(a.flag) = 2 THEN <<a.flag \o a.val>> ELSE <<a.flag, a.val>>

\* The form an argument with a value is appended in: canonical when its
\* value may be written either way, two tokens when its value is always a
\* separate token, and one token, with the delimiter before a value that is
\* not empty, when its value is always concatenated
AppendedForm(a) ==
  IF a.disp \in {"CanBeSeparated", "CanBeConcatenated"} THEN Canonical(a)
  ELSE IF a.disp = "Separated" THEN <<a.flag, a.val>>
  ELSE <<a.flag \o (IF a.delim # "" /\ a.val # <<>> THEN <<a.delim>> ELSE <<>>)
                \o a.val>>

\* The tokens appended are parsed again to the same tokens
ReparsedTheSame(a, tokens) ==
  LET r == RunLoop(ExpandAtArgsNew(tokens), InitLocals)
  IN  IF IsPreprocessorTagged(a)
        THEN r.preprocessor_args = tokens /\ r.common_args = <<>>
        ELSE r.common_args = tokens /\ r.preprocessor_args = <<>>

\* An argument with a value has just been appended to a vector
ValueAppended ==
  /\ result = Running
  /\ seen # <<>>
  /\ LastSeen.kind = "WithValue"
  /\ IsPreprocessorTagged(LastSeen) \/ IsPassThroughTagged(LastSeen)

\* C7 as stated: every argument with a value that is appended to the
\* preprocessor or common vector is appended in canonical form, one token
\* flag+value for a flag text of two characters and the two tokens flag,
\* value otherwise, and parsing the appended tokens again gives them again
\* (read for a value that is not empty).
C7_Original ==
  (ValueAppended /\ LastSeen.val # <<>>) =>
    /\ EndsWith(VectorOf(LastSeen), Canonical(LastSeen))
    /\ ReparsedTheSame(LastSeen, Canonical(LastSeen))

\* C7 as amended: an argument whose value may be written either way (-D,
\* -I, -U, -include) is appended in canonical form, so that both spellings
\* give the same tokens; an argument whose value is always a separate token
\* (-L, -W, -l, -t) is appended as the two tokens flag, value also for a
\* flag text of two characters, and one whose value is always concatenated
\* (-Xmake-dependency-savefile=, -Xmake-dependency-target=) as the one
\* token it was written as; parsing the appended tokens again gives them
\* again.
C7_AppendedForm ==
  ValueAppended =>
    /\ EndsWith(VectorOf(LastSeen), AppendedForm(LastSeen))
    /\ ReparsedTheSame(LastSeen, AppendedForm(LastSeen))

\* C7 witness: -I include and -Iinclude, appended as the same token
C7_Witness ==
  /\ ValueAppended
  /\ Len(seen) = 2
  /\ seen[1].disp = "CanBeConcatenated"
  /\ seen[2].disp = "CanBeSeparated"
  /\ preprocessor_args = <<t_Iinclude, t_Iinclude>>

\* C8: the arguments of the compile command are -c, the input, -o, the
\* output, the preprocessor arguments and the common arguments, and those
\* of the preprocess command -E, the input, the preprocessor arguments and
\* the common arguments; for `-c foo.c -fabc -I include -include file
\* -o foo.o`, however interleaved, they are `-c foo.c -o foo.o -Iinclude
\* -include file -fabc` and `-E foo.c -Iinclude -include file -fabc`.
C8_CommandArguments ==
  /\ compile_cmd # <<>> =>
       /\ ~compile_cmd[1].is_err
       /\ compile_cmd[1].arguments =
            <<s_c, input_arg[1], s_o, result.parsed[1].outputs["obj"]>>
              \o preprocessor_args \o common_args
       /\ arguments \in Interleavings =>
            compile_cmd[1].arguments =
              <<s_c, t_foo_c, s_o, t_foo_o, t_Iinclude, s_include, t_file, t_fabc>>
  /\ preprocess_cmd # <<>> =>
       /\ preprocess_cmd[1] =
            <<s_E, input_arg[1]>> \o preprocessor_args \o common_args
       /\ arguments \in Interleavings =>
            preprocess_cmd[1] =
              <<s_E, t_foo_c, t_Iinclude, s_include, t_file, t_fabc>>

\* C8 witness: both commands of an interleaving of the example that starts
\* with the output
C8_Witness ==
  /\ arguments \in Interleavings
  /\ arguments[1] = s_o
  /\ compile_cmd # <<>>
  /\ preprocess_cmd # <<>>

\* The tokens of an argument in a vector
FormOf(a) ==
  IF a.kind = "UnknownFlag" THEN <<a.val>>
  ELSE IF a.kind = "Flag" THEN <<a.flag>>
  ELSE AppendedForm(a)

\* The tokens, in the order of the input, of the first n arguments taken
\* that are preprocessor-tagged
RECURSIVE PreprocessorTokens(_)
PreprocessorTokens(n) ==
  IF n = 0 THEN <<>>
  ELSE PreprocessorTokens(n - 1)
         \o (IF IsPreprocessorTagged(seen[n]) THEN FormOf(seen[n]) ELSE <<>>)

\* The same for the pass-through arguments and the unrecognized flags
RECURSIVE CommonTokens(_)
CommonTokens(n) ==
  IF n = 0 THEN <<>>
  ELSE CommonTokens(n - 1)
         \o (IF IsCommon(seen[n]) THEN FormOf(seen[n]) ELSE <<>>)

\* C6 as stated: a classified argument with an attached value that begins
\* with '@', in any attachment style, makes parse_arguments return at once
\* CannotCache with reason "-@".
C6_Original ==
  \A i \in DOMAIN seen : HasAtValue(seen[i]) => result = CannotCache(s_at)

\* C6 as amended: a classified argument whose value begins with '@' and
\* whose flag takes its value as a separate token or either way (observed
\* Separated, CanBeConcatenated or CanBeSeparated) makes parse_arguments
\* return at once, before the argument's role is looked at, CannotCache
\* with reason "@"; a flag that only takes a concatenated value is not
\* checked: `-Xmake-dependency-target=@x` goes on to the preprocessor
\* arguments, and `-@@x` is refused as the too-hard flag "-@".
C6_AtValueCannotCache ==
  \A i \in DOMAIN seen :
    HasAtValue(seen[i]) =>
      IF seen[i].disp \in {"Separated", "CanBeConcatenated", "CanBeSeparated"}
        THEN /\ i = Len(seen)
             /\ result = CannotCache(s_atsign)
             /\ output_arg # <<seen[i].val>>
             /\ preprocessor_args = PreprocessorTokens(i - 1)
             /\ common_args = CommonTokens(i - 1)
      ELSE IF seen[i].flag = s_at
        THEN i = Len(seen) /\ result = CannotCache(s_at)
        ELSE /\ seen[i].disp = "Concatenated"
             /\ i < Len(seen) \/ result # CannotCache(s_atsign)
             /\ \E k \in DOMAIN preprocessor_args :
                  preprocessor_args[k]
                    = seen[i].flag \o <<seen[i].delim>> \o seen[i].val

\* C6 witness: -I with the separate value @x after -c
C6_Witness ==
  /\ SeenWhere(IsCompileStep) # {}
  /\ seen[Len(seen)] =
       ArgWithValue(s_I, t_atx, "CanBeConcatenated", "", "PreprocessorArgumentPath")
  /\ result = CannotCache(s_atsign)

\* C10: in every Ok the preprocessor vector holds the normalized arguments
\* tagged preprocessor-relevant and nothing else, the common vector those
\* tagged pass-through and the unrecognized flags as written and nothing
\* else, each in the order of the input; -c, -o with its value and the
\* input are in neither.
C10_BucketsByTag ==
  result.kind = "Ok" =>
    /\ result.parsed[1].preprocessor_args = PreprocessorTokens(Len(seen))
    /\ result.parsed[1].common_args = CommonTokens(Len(seen))

\* C10 witness: an Ok with an output and with arguments in both vectors,
\* the common one holding a pass-through argument and an unrecognized flag
C10_Witness ==
  /\ result.kind = "Ok"
  /\ SeenWhere(IsOutput) # {}
  /\ SeenWhere(IsPassThroughTagged) # {}
  /\ SeenWhere(IsUnknownFlag) # {}
  /\ result.parsed[1].preprocessor_args # <<>>

\* The flags whose value is always a separate token
SeparatedFlags == {s_o, s_L, s_W, s_l, s_t}

\* No argument taken is a too-hard one or has a value that begins with '@'
NoAbortTaken ==
  \A i \in DOMAIN seen : ~IsTooHardTagged(seen[i]) /\ ~HasAtValue(seen[i])

\* parse_arguments has returned after the whole expanded stream was taken,
\* and the last token of the stream is a flag with a separate value
EndsInSeparatedFlag ==
  /\ Returned
  /\ NoAbortTaken
  /\ expanded # <<>>
  /\ expanded[Len(expanded)] \in SeparatedFlags

\* The last token of the stream was taken as the value of the flag before it
LastTokenIsValue ==
  /\ seen # <<>>
  /\ seen[Len(seen)].kind = "WithValue"
  /\ seen[Len(seen)].disp \in {"Separated", "CanBeConcatenated"}
  /\ seen[Len(seen)].val = expanded[Len(expanded)]

\* C11 as stated: when the expanded stream ends in a flag whose value is a
\* separate token (-o, -L, -W, -l, -t), with no value left for it, and no
\* argument before it aborted, parse_arguments returns CannotCache with the
\* reason "argument parse".
C11_Original ==
  EndsInSeparatedFlag => result = CannotCache(s_argument_parse)

\* C11 as amended: when the expanded stream ends in a flag whose value is a
\* separate token, that token is not itself taken as the value of the flag
\* before it, and no argument before it aborted, the last item of the
\* classification is a parse error and parse_arguments returns CannotCache
\* with the reason "argument parse", never NotCompilation or Ok, with or
\* without -c and whatever was classified before; a parse error never
\* comes with another result.
C11_TrailingSeparatedFlag ==
  /\ (EndsInSeparatedFlag /\ ~LastTokenIsValue) =>
        /\ IsParseError(seen[Len(seen)])
        /\ result = CannotCache(s_argument_parse)
  /\ \A i \in DOMAIN seen :
        IsParseError(seen[i]) =>
          /\ i = Len(seen)
          /\ result = CannotCache(s_argument_parse)
          /\ expanded[Len(expanded)] \in SeparatedFlags

\* C11 witness: a command line without -c, with an input and a
\* pass-through argument classified, that ends in -o
C11_Witness ==
  /\ EndsInSeparatedFlag
  /\ ~LastTokenIsValue
  /\ ~compilation
  /\ input_arg # <<>>
  /\ common_args # <<>>
  /\ expanded[Len(expanded)] = s_o
  /\ result = CannotCache(s_argument_parse)

\* The expander opens the file of this name and pushes its arguments
Followed(name) == ~OptionName(name) /\ ReadableQuoteFree(name)

\* The files that the `-@` tokens among toks make the expander open
References(toks) ==
  {AtName(toks[i]) :
     i \in {j \in DOMAIN toks :
              IsAtToken(toks[j]) /\ Followed(AtName(toks[j]))}}

\* The files that a file's own tokens make the expander open
RefsOf == [n \in DOMAIN Files |-> References(SplitWhitespace(Files[n]))]

\* The files opened from those of S, through n more references at most
RECURSIVE ReachFrom(_, _)
ReachFrom(S, n) ==
  IF n = 0 THEN S
  ELSE ReachFrom(S \cup UNION {RefsOf[x] : x \in S}, n - 1)

\* The files a file references, directly or through other files
ReachOf == [n \in DOMAIN Files |-> ReachFrom(RefsOf[n], Cardinality(DOMAIN Files))]

\* The files that reference themselves, directly or through other files
CyclicNames == {n \in DOMAIN Files : n \in ReachOf[n]}

\* A file reachable from the command line references itself
HasCycle(args) ==
  \E n \in References(args) : ({n} \cup ReachOf[n]) \cap CyclicNames # {}

\* A step that reads a file: the file is the one named by the token on top
\* of the stack, a file the expander follows; nothing is returned by the
\* step, the tokens below the top stay and the file's arguments take the
\* place of the top, the first of them on top.
ReadIsLazy ==
  reads' # reads =>
    LET tok == stack[Len(stack)]
        new_args == SplitWhitespace(Files[AtName(tok)])
    IN  /\ IsAtToken(tok) /\ Followed(AtName(tok))
        /\ reads' = Append(reads, [name |-> AtName(tok),
                                   returned |-> Len(expanded),
                                   pending |-> Len(stack) - 1])
        /\ expanded' = expanded
        /\ Len(stack') = Len(stack) - 1 + Len(new_args)
        /\ \A k \in 1..(Len(stack) - 1) : stack'[k] = stack[k]
        /\ \A k \in DOMAIN new_args :
             stack'[Len(stack') + 1 - k] = new_args[k]

\* What was returned, followed by the whole expansion of what is pending,
\* is the whole expansion of the command line
NothingAhead ==
  expanded \o ExpandAll(stack) = ExpandAll(ExpandAtArgsNew(arguments))

\* C12: when no file reachable from the command line references itself,
\* ExpandAtArgs returns None in the end, after finitely many tokens; until
\* then what it has returned and what is pending make up the whole
\* expansion, and a file is read only in the step that finds its `-@`
\* token on top of the stack, all tokens before it returned. When a
\* readable quote-free file reachable from the command line references
\* itself, directly or through other files, ExpandAtArgs never returns
\* None.
C12_ExpanderTermination ==
  /\ <>(HasCycle(arguments) \/ ended)
  /\ [](HasCycle(arguments) => ~ended)
  /\ [](~HasCycle(arguments) => NothingAhead)
  /\ [][ReadIsLazy]_vars

\* C12 witness: the expansion has ended after a file read from inside
\* another file, with tokens returned before and after
C12_Witness ==
  /\ ended
  /\ \E i \in DOMAIN reads :
       /\ reads[i].name = n_f
       /\ reads[i].returned > 0
       /\ reads[i].pending > 1
  /\ Len(expanded) > 4

\* The kinds of result parse_arguments has
Verdicts == {"NotCompilation", "CannotCache", "Ok"}

\* An argument without a tag is a bare token or a flag the table does not
\* know: the arms of unreachable!() under None are not taken
UntaggedIsRawOrUnknown(a) ==
  get_data(a) = "None" => a.kind \in {"Raw", "UnknownFlag"}

\* A too-hard argument has flag text, so expect() does not fail, and it is
\* the last argument taken: the loop returns CannotCache with the flag text
\* before the vector is chosen, the vectors left as they were
TooHardReturns(i) ==
  IsTooHardTagged(seen[i]) =>
    /\ flag_str(seen[i]) # <<>>
    /\ i = Len(seen)
    /\ result = CannotCache(seen[i].flag)
    /\ BucketOf(seen[i]) = "unreachable"
    /\ preprocessor_args = PreprocessorTokens(i - 1)
    /\ common_args = CommonTokens(i - 1)

\* C13: parse_arguments never panics: its result is NotCompilation,
\* CannotCache or Ok, and a call that has not returned can take the next
\* item of the expanded stream or its end; every argument taken without a
\* tag is a bare token or an unrecognized flag, and every too-hard
\* argument has flag text and makes the loop return before bucket
\* selection.
C13_TotalVerdict ==
  /\ result.kind \in Verdicts \cup {"Running"}
  /\ result = Running => ArgsIterNext(stack).kind \in {"Arg", "Err", "None"}
  /\ result.kind = "CannotCache" => result.reason # <<>> /\ result.parsed = <<>>
  /\ result.kind = "Ok" => Len(result.parsed) = 1 /\ result.reason = <<>>
  /\ \A i \in DOMAIN seen :
        ~IsParseError(seen[i]) =>
          UntaggedIsRawOrUnknown(seen[i]) /\ TooHardReturns(i)

\* C13 witness: after a bare token and an unrecognized flag, a too-hard
\* flag made the loop return CannotCache with its flag text
C13_Witness ==
  /\ seen # <<>>
  /\ IsTooHardTagged(seen[Len(seen)])
  /\ SeenWhere(IsUnknownFlag) # {}
  /\ SeenWhere(IsRaw) # {}
  /\ result = CannotCache(s_E)

====
